---- MODULE Spec2Model ----
(***************************************************************************)
(* A model of the copyscripts utilities:                                   *)
(*   - repair-remarks.py         the comment normalizer                    *)
(*   - REVERT-to-GPT-scripts.py  the importer (restore from a .GPTBAK)     *)
(*   - copyscripts.py and COPYSCRIPTS_SELECTIVE.py, the exporters          *)
(* Text is modelled character by character: a string is a sequence of      *)
(* one-character strings, so that strip(), partition(), the header regular *)
(* expression and the delimiter split are computed as Python computes them. *)
(***************************************************************************)
EXTENDS Integers, Sequences, FiniteSets, TLC

VARIABLES
    prog,       \* which program this behaviour runs
    nname,      \* normalizer: the file's name (characters)
    ndisk,      \* normalizer: the file's content on disk (characters)
    ndecodes,   \* normalizer: whether the file decodes as UTF-8
    nreports,   \* normalizer: one report per completed process_file call
    pc,         \* importer: where main() stands
    files,      \* importer: the files on disk, path -> content
    dirs,       \* importer: the directories on disk
    gptbak_files,       \* importer: the artifacts as last listed for selection
    selected,           \* importer: selected_gptbak
    selection_number,   \* importer: the number of the selection
    input,      \* importer: the line the current prompt has read last
    scripts,    \* importer: the scripts parsed from the selected artifact
    idx,        \* importer: the position of replace_scripts in scripts
    exit_code,  \* importer: the process's exit status, -1 while it runs
    faults,     \* importer: how many file operations have raised so far
    iterations, \* importer: passes of main's while loop begun
    logged,     \* importer: what replace_scripts logged, script by script, in this pass
    variant,    \* exporter: which of the two exporters runs
    argv0,      \* exporter: os.path.basename(__file__), the name the script runs under
    args,       \* exporter: what parse_arguments returned
    backup_dir, \* exporter: the files in the backup directory, name -> content
    filename_map,   \* exporter: lower-cased file name -> the paths collected, in order
    reported,   \* exporter: the paths alert_duplicate_filenames has printed
    doc_sections,   \* exporter: the sections generate_output laid out, in order
    document,   \* exporter: the text handed to write_output_file
    restored    \* exporter: the files of an empty directory after the document is restored

varsN == << nname, ndisk, ndecodes, nreports >>
varsI == << pc, files, dirs, gptbak_files, selected, selection_number, input,
            scripts, idx, exit_code, faults, iterations, logged >>
varsE == << variant, argv0, args, backup_dir, filename_map, reported,
            doc_sections, document, restored >>
vars == << prog, varsN, varsI, varsE >>

\* no exporter is running
IdleExport ==
    /\ variant = "none"
    /\ argv0 = << >>
    /\ args = << >>
    /\ backup_dir = << >>
    /\ filename_map = << >>
    /\ reported = { }
    /\ doc_sections = << >>
    /\ document = << >>
    /\ restored = << >>

(***************************************************************************)
(* Bounds of the model.                                                    *)
(***************************************************************************)
MaxLines == 2   \* lines of a file handed to the normalizer
MaxRuns == 2    \* process_file calls on the same file
MaxSections == 2    \* sections of an artifact
MaxArtifacts == 2   \* artifacts in the working directory
MaxFaults == 1      \* file operations that raise during one run
MaxIterations == 1  \* passes of the importer's main loop
MaxFiles == 2       \* files in the exporter's tree besides the exporters
MaxLogLines == 10   \* lines of the log handed to the excerpt

(***************************************************************************)
(* Python str helpers, on sequences of characters.                         *)
(***************************************************************************)
Space == { " ", "\n", "\t", "\r" }
Digits == { "0", "1", "2", "3", "4", "5", "6", "7", "8", "9" }

\* least index j >= i with s[j] in C, or Len(s) + 1 when there is none
find_in(s, C, i) ==
    CHOOSE j \in i..(Len(s) + 1) :
        /\ (j = Len(s) + 1 \/ s[j] \in C)
        /\ \A k \in i..(j - 1) : s[k] \notin C

\* least index j >= i with s[j] not in C, or Len(s) + 1: the end of a run
skip_in(s, C, i) ==
    CHOOSE j \in i..(Len(s) + 1) :
        /\ (j = Len(s) + 1 \/ s[j] \notin C)
        /\ \A k \in i..(j - 1) : s[k] \in C

\* greatest index j <= i with s[j] not in C, or 0
rskip_in(s, C, i) ==
    CHOOSE j \in 0..i :
        /\ (j = 0 \/ s[j] \notin C)
        /\ \A k \in (j + 1)..i : s[k] \in C

\* s.strip(chars)
strip_chars(s, C) ==
    LET a == skip_in(s, C, 1)
        b == rskip_in(s, C, Len(s))
    IN IF a > b THEN << >> ELSE SubSeq(s, a, b)

strip(s) == strip_chars(s, Space)

rstrip(s) == SubSeq(s, 1, rskip_in(s, Space, Len(s)))

startswith(s, p) == Len(s) >= Len(p) /\ SubSeq(s, 1, Len(p)) = p

endswith(s, p) == Len(s) >= Len(p) /\ SubSeq(s, Len(s) - Len(p) + 1, Len(s)) = p

\* index of the first occurrence of character c in s at or after i, or Len(s)+1
find_char(s, c, i) == find_in(s, { c }, i)

contains_char(s, c) == find_char(s, c, 1) <= Len(s)

RECURSIVE concat(_)
concat(ss) == IF ss = << >> THEN << >> ELSE Head(ss) \o concat(Tail(ss))

(***************************************************************************)
(* repair-remarks.py                                                       *)
(***************************************************************************)
DotPy == << ".", "p", "y" >>
RepairRemarksPy ==
    << "r", "e", "p", "a", "i", "r", "-", "r", "e", "m", "a", "r", "k", "s", ".", "p", "y" >>

\* f.readlines(): the lines of the text, each keeping its terminating "\n"
RECURSIVE readlines(_)
readlines(text) ==
    IF text = << >> THEN << >>
    ELSE LET n == find_char(text, "\n", 1)
         IN IF n > Len(text) THEN << text >>
            ELSE << SubSeq(text, 1, n) >> \o readlines(SubSeq(text, n + 1, Len(text)))

\* f.writelines(lines)
writelines(lines) == concat(lines)

correct_comment(filename) == << "#", " " >> \o filename

\* one iteration of the loop over lines; st carries the loop's locals
process_line(line, cc, st) ==
    LET stripped_line == strip(line)
    IN IF stripped_line = cc
       THEN IF ~st.found_correct_comment
            THEN [st EXCEPT !.modified_lines = Append(@, line),
                            !.found_correct_comment = TRUE]
            ELSE [st EXCEPT !.duplicate_correct_comments_removed = @ + 1]
       ELSE IF startswith(stripped_line, << "#" >>)
       THEN [st EXCEPT !.standalone_comments_removed = @ + 1]
       ELSE IF contains_char(line, "#")
       THEN LET h == find_char(line, "#", 1)
                code_part == SubSeq(line, 1, h - 1)
                comment_part == SubSeq(line, h + 1, Len(line))
            IN IF strip(code_part) # << >>
               THEN [st EXCEPT
                       !.modified_lines = Append(@, rstrip(code_part) \o << "\n" >>),
                       !.in_line_comments_removed =
                           IF strip(comment_part) # << >> THEN @ + 1 ELSE @]
               ELSE [st EXCEPT !.modified_lines = Append(@, line)]
       ELSE [st EXCEPT !.modified_lines = Append(@, line)]

RECURSIVE process_lines(_, _, _)
process_lines(lines, cc, st) ==
    IF lines = << >> THEN st
    ELSE process_lines(Tail(lines), cc, process_line(Head(lines), cc, st))

\* a sign slip in the banner test: "if found_correct_comment: modified = True"
IsModifiedFoundSlip(st) ==
    \/ st.in_line_comments_removed > 0
    \/ st.standalone_comments_removed > 0
    \/ st.duplicate_correct_comments_removed > 0
    \/ st.found_correct_comment

\* the flag that decides whether a file is written back and what is reported
IsModified(st) ==
    \/ st.in_line_comments_removed > 0
    \/ st.standalone_comments_removed > 0
    \/ st.duplicate_correct_comments_removed > 0
    \/ ~st.found_correct_comment

\* what one process_file call did: the printed report, and the file before/after
NoReport ==
    [outcome |-> "none", no_changes |-> FALSE, wrote |-> FALSE, found |-> FALSE,
     inline |-> 0, standalone |-> 0, duplicate |-> 0,
     computed |-> << >>, before |-> << >>, after |-> << >>]

\* process_file on a file that opens and decodes
process_file(text, filename) ==
    LET cc == correct_comment(filename)
        st == process_lines(readlines(text), cc,
                  [modified_lines |-> << >>,
                   found_correct_comment |-> FALSE,
                   in_line_comments_removed |-> 0,
                   standalone_comments_removed |-> 0,
                   duplicate_correct_comments_removed |-> 0])
        modified_lines ==
            IF ~st.found_correct_comment
            THEN << cc \o << "\n" >> >> \o st.modified_lines
            ELSE st.modified_lines
        modified == IsModified(st)
        disk == IF modified THEN writelines(modified_lines) ELSE text
    IN [NoReport EXCEPT
          !.outcome = "processed",
          !.no_changes = ~modified,
          !.wrote = modified,
          !.found = st.found_correct_comment,
          !.inline = st.in_line_comments_removed,
          !.standalone = st.standalone_comments_removed,
          !.duplicate = st.duplicate_correct_comments_removed,
          !.computed = writelines(modified_lines),
          !.before = text,
          !.after = disk]

\* process_python_files: which files of the walk are handed to process_file
is_processed(file) == endswith(file, DotPy) /\ file # RepairRemarksPy

(***************************************************************************)
(* Inputs of the normalizer.                                               *)
(***************************************************************************)
APy == << "a", ".", "p", "y" >>
BTxt == << "b", ".", "t", "x", "t" >>
NormNames == { APy, BTxt, RepairRemarksPy }

\* lines without their terminator; filled in per file name below
NormLines(filename) ==
    { << >>,
      << " " >>,
      << "x" >>,
      << " ", "x", " " >>,
      << "#" >>,
      << "#", " ", "c" >>,
      << " ", "#", "c" >>,
      << "x", " ", "#" >>,
      << "x", " ", "#", " " >>,
      << "x", " ", "#", " ", "c" >>,
      << "x", "#", "c", "#", "d" >>,
      correct_comment(filename),
      << " " >> \o correct_comment(filename) \o << " " >>,
      << "x", " " >> \o correct_comment(filename),
      correct_comment(filename) \o << "x" >> }

RECURSIVE NormTexts(_, _)
NormTexts(filename, n) ==
    IF n = 0 THEN { << >> }
    ELSE LET shorter == NormTexts(filename, n - 1)
         IN shorter
            \cup { l \o << "\n" >> \o t : l \in NormLines(filename), t \in shorter }
            \cup { l : l \in NormLines(filename) \ { << >> } }

\* the importer is not running
IdleImport ==
    /\ pc = "idle"
    /\ files = << >>
    /\ dirs = { }
    /\ gptbak_files = << >>
    /\ selected = << >>
    /\ selection_number = 0
    /\ input = << >>
    /\ scripts = << >>
    /\ idx = 0
    /\ exit_code = -1
    /\ faults = 0
    /\ iterations = 0
    /\ logged = << >>

InitNorm ==
    /\ prog = "normalizer"
    /\ IdleImport
    /\ IdleExport
    /\ nname \in NormNames
    /\ ndisk \in NormTexts(nname, MaxLines)
    /\ ndecodes \in BOOLEAN
    /\ nreports = << >>

\* process_python_files hands the file to process_file, which succeeds
ProcessFile ==
    /\ prog = "normalizer"
    /\ Len(nreports) < MaxRuns
    /\ is_processed(nname)
    /\ ndecodes
    /\ LET r == process_file(ndisk, nname)
       IN /\ ndisk' = r.after
          /\ nreports' = Append(nreports, r)
    /\ UNCHANGED << prog, nname, ndecodes, varsI, varsE >>

\* process_file: open/readlines raises, the except branch prints ERROR
ProcessFileError ==
    /\ prog = "normalizer"
    /\ Len(nreports) < MaxRuns
    /\ is_processed(nname)
    /\ ~ndecodes
    /\ nreports' = Append(nreports,
           [NoReport EXCEPT !.outcome = "error", !.before = ndisk, !.after = ndisk])
    /\ UNCHANGED << prog, nname, ndisk, ndecodes, varsI, varsE >>

\* process_python_files: the file does not end in .py, or is repair-remarks.py
SkipFile ==
    /\ prog = "normalizer"
    /\ Len(nreports) < MaxRuns
    /\ ~is_processed(nname)
    /\ nreports' = Append(nreports,
           [NoReport EXCEPT !.outcome = "skipped", !.before = ndisk, !.after = ndisk])
    /\ UNCHANGED << prog, nname, ndisk, ndecodes, varsI, varsE >>

NextNorm == ProcessFile \/ ProcessFileError \/ SkipFile

SpecNorm == InitNorm /\ [][NextNorm]_vars

(***************************************************************************)
(* Claims about the normalizer (checked under SpecNorm).                   *)
(***************************************************************************)
Processed(k) == k \in 1..Len(nreports) /\ nreports[k].outcome = "processed"

\* C7: a process_file call on a file that an earlier call has processed reports
\* "No changes", does not write the file, and leaves the content that the
\* earlier call left.
C7_NormalizerIdempotent ==
    \A k \in 2..Len(nreports) :
        (Processed(k - 1) /\ Processed(k)) =>
            /\ nreports[k].no_changes
            /\ ~nreports[k].wrote
            /\ nreports[k].after = nreports[k - 1].after

\* a first call that rewrote the file, followed by a second call
C7_Witness ==
    /\ Len(nreports) = 2
    /\ Processed(1) /\ Processed(2)
    /\ nreports[1].wrote
    /\ nreports[1].inline > 0
    /\ nreports[1].standalone > 0

BannerLines(text, filename) ==
    LET ls == readlines(text)
    IN { i \in 1..Len(ls) : strip(ls[i]) = correct_comment(filename) }

\* C8: after process_file has processed a file, the file on disk holds exactly
\* one banner line '# <filename>' and no other line contains a comment: it is
\* the text the loop computed (standalone comments dropped, in-line comments
\* cut back to the right-trimmed code).
C8_NormalizerPostState ==
    \A k \in 1..Len(nreports) :
        Processed(k) =>
            LET ls == readlines(nreports[k].after)
                banners == BannerLines(nreports[k].after, nname)
            IN /\ Cardinality(banners) = 1
               /\ \A i \in 1..Len(ls) : i \notin banners => ~contains_char(ls[i], "#")
               /\ nreports[k].after = nreports[k].computed

(***************************************************************************)
(* REVERT-to-GPT-scripts.py: parsing a backup artifact                     *)
(***************************************************************************)
GitIgnore == << ".", "g", "i", "t", "i", "g", "n", "o", "r", "e" >>
CopyscriptsPy == << "c", "o", "p", "y", "s", "c", "r", "i", "p", "t", "s", ".", "p", "y" >>
RevertPy ==
    << "R", "E", "V", "E", "R", "T", "-", "t", "o", "-", "G", "P", "T", "-", "s", "c",
       "r", "i", "p", "t", "s", ".", "p", "y" >>

EXCLUDED_FILES == { GitIgnore, CopyscriptsPy, RepairRemarksPy, RevertPy }

LocatedInThe ==
    << "(", "l", "o", "c", "a", "t", "e", "d", " ", "i", "n", " ", "t", "h", "e", " " >>
WorkingDirectory ==
    << "w", "o", "r", "k", "i", "n", "g", " ", "d", "i", "r", "e", "c", "t", "o", "r", "y" >>
SubdirectorySuffix ==
    << "'", " ", "s", "u", "b", "d", "i", "r", "e", "c", "t", "o", "r", "y" >>
Scripts == << "s", "c", "r", "i", "p", "t", "s" >>

\* a path is the sequence of its components below the working directory
Cwd == << >>
ScriptsDir == << Scripts >>
MANAGED_DIRECTORIES == << Cwd, ScriptsDir >>

\* the character U+0060, which a TLA+ string cannot hold
Backtick == "<backtick>"

\* the literal lit stands in s at index i
has_at(s, i, lit) ==
    /\ i + Len(lit) - 1 <= Len(s)
    /\ SubSeq(s, i, i + Len(lit) - 1) = lit

\* r'={5,}' matches at i: the start of a maximal run of five or more '='
IsDelimStart(s, i) ==
    /\ s[i] = "="
    /\ (i = 1 \/ s[i - 1] # "=")
    /\ skip_in(s, { "=" }, i) - i >= 5

next_delim(s, a) ==
    CHOOSE j \in a..(Len(s) + 1) :
        /\ (j = Len(s) + 1 \/ IsDelimStart(s, j))
        /\ \A k \in a..(j - 1) : ~IsDelimStart(s, k)

\* re.split(r'={5,}', content), from index a on
RECURSIVE re_split(_, _)
re_split(s, a) ==
    LET i == next_delim(s, a)
    IN IF i > Len(s) THEN << SubSeq(s, a, Len(s)) >>
       ELSE << SubSeq(s, a, i - 1) >> \o re_split(s, skip_in(s, { "=" }, i))

NoMatch == [matched |-> FALSE, filename |-> << >>, location |-> << >>,
            subdirectory |-> << >>, end |-> 0]

\* the tail of the header pattern, '\):\s*\n', at index t
header_tail(s, t, filename, location, subdirectory) ==
    IF ~has_at(s, t, << ")", ":" >>) THEN NoMatch
    ELSE LET w == skip_in(s, Space, t + 2)
             nl == { k \in (t + 2)..(w - 1) : s[k] = "\n" }
         IN IF nl = { } THEN NoMatch
            ELSE [matched |-> TRUE, filename |-> filename, location |-> location,
                  subdirectory |-> subdirectory,
                  end |-> (CHOOSE k \in nl : \A m \in nl : m <= k) + 1]

\* script_header_pattern from its \d+ on, tried at index q
match_at(s, q) ==
    LET d == skip_in(s, Digits, q)                  \* \d+
        w1 == skip_in(s, Space, d + 1)              \* \)\s+
        f == find_in(s, Space, w1)                  \* ([^\s]+)
        w2 == skip_in(s, Space, f)                  \* \s+
        l == w2 + Len(LocatedInThe)                 \* \(located in the
        e == find_in(s, { "'" }, l + 1)             \* '([^']+)
    IN IF d = q \/ ~has_at(s, d, << ")" >>) THEN NoMatch
       ELSE IF w1 = d + 1 \/ f = w1 \/ w2 = f THEN NoMatch
       ELSE IF ~has_at(s, w2, LocatedInThe) THEN NoMatch
       ELSE IF has_at(s, l, WorkingDirectory)
       THEN header_tail(s, l + Len(WorkingDirectory),
                        SubSeq(s, w1, f - 1), WorkingDirectory, << >>)
       ELSE IF has_at(s, l, << "'" >>) /\ e > l + 1 /\ has_at(s, e, SubdirectorySuffix)
       THEN header_tail(s, e + Len(SubdirectorySuffix),
                        SubSeq(s, w1, f - 1),
                        SubSeq(s, l, e + Len(SubdirectorySuffix) - 1),
                        SubSeq(s, l + 1, e - 1))
       ELSE NoMatch

\* '^\s*' can end just before q: only blanks lie between q and its line's start
AtLineStart(s, q) ==
    LET h == rskip_in(s, { " ", "\t" }, q - 1)
    IN h = 0 \/ s[h] = "\n"

\* script_header_pattern.search(section): the leftmost match
search(s) ==
    LET Q == { q \in 1..Len(s) :
                 /\ s[q] \in Digits
                 /\ AtLineStart(s, q)
                 /\ match_at(s, q).matched }
    IN IF Q = { } THEN NoMatch
       ELSE match_at(s, CHOOSE q \in Q : \A r \in Q : q <= r)

\* the body of the loop over sections: << >> or one script
parse_section(section) ==
    LET match == search(section)
        filename == strip(match.filename)
        location == strip(match.location)
        script_content ==
            strip(strip_chars(strip(SubSeq(section, match.end, Len(section))), { Backtick }))
    IN IF ~match.matched THEN << >>
       ELSE IF location # WorkingDirectory /\ match.subdirectory # Scripts THEN << >>
       ELSE IF filename \in EXCLUDED_FILES THEN << >>
       ELSE << [filename |-> filename,
                directory |-> IF location = WorkingDirectory THEN Cwd ELSE ScriptsDir,
                content |-> script_content] >>

RECURSIVE parse_sections(_)
parse_sections(sections) ==
    IF sections = << >> THEN << >>
    ELSE parse_section(Head(sections)) \o parse_sections(Tail(sections))

\* parse_gptbak_file on the text of an artifact that exists
parse_gptbak_file(content) == parse_sections(re_split(content, 1))

(***************************************************************************)
(* pathlib and the file system.  A path is resolved to the sequence of its *)
(* components below the working directory; a leading ".." component stands *)
(* for the working directory's parent.  Names compare case-sensitively     *)
(* (POSIX).                                                                *)
(***************************************************************************)
Dot == << "." >>
DotDot == << ".", "." >>

Last(path) == path[Len(path)]

\* PurePath parsing of a relative name: split at "/", dropping "" and "."
RECURSIVE split_path(_)
split_path(s) ==
    IF s = << >> THEN << >>
    ELSE LET j == find_char(s, "/", 1)
             part == SubSeq(s, 1, j - 1)
             rest == split_path(SubSeq(s, j + 1, Len(s)))
         IN IF part = << >> \/ part = Dot THEN rest ELSE << part >> \o rest

\* the directory ".." names, seen from the resolved directory base
Parent(base) ==
    IF base = << >> \/ Last(base) = DotDot THEN Append(base, DotDot)
    ELSE SubSeq(base, 1, Len(base) - 1)

NoPath == << << "<no such path>" >> >>

\* the file the OS reaches from directory base along parts; NoPath when a
\* component on the way is not an existing directory
RECURSIVE walk(_, _, _)
walk(base, parts, ds) ==
    IF base \notin ds THEN NoPath
    ELSE IF parts = << >> THEN base
    ELSE IF Len(parts) = 1 /\ Head(parts) # DotDot THEN Append(base, Head(parts))
    ELSE walk(IF Head(parts) = DotDot THEN Parent(base) ELSE Append(base, Head(parts)),
              Tail(parts), ds)

\* fnmatch.fnmatchcase(name, pat) for patterns whose only wildcard is "*"
RECURSIVE fnmatch(_, _)
fnmatch(name, pat) ==
    IF pat = << >> THEN name = << >>
    ELSE IF Head(pat) = "*"
    THEN fnmatch(name, Tail(pat)) \/ (name # << >> /\ fnmatch(Tail(name), pat))
    ELSE name # << >> /\ Head(name) = Head(pat) /\ fnmatch(Tail(name), Tail(pat))

\* the entries (files and directories) directly in directory d
listdir(d, fs, ds) ==
    { p \in (DOMAIN fs) \cup ds :
        Len(p) = Len(d) + 1 /\ SubSeq(p, 1, Len(d)) = d /\ Last(p) # DotDot }

\* Path.glob: the selectors of pathlib, one per pattern part
RECURSIVE select_from(_, _, _, _)
select_from(cur, parts, fs, ds) ==
    IF parts = << >> THEN cur
    ELSE LET part == Head(parts)
             here == cur \cap ds
             next ==
                IF part = DotDot THEN { Parent(d) : d \in here }
                ELSE IF contains_char(part, "*")
                THEN UNION { { p \in listdir(d, fs, ds) : fnmatch(Last(p), part) } :
                             d \in here }
                ELSE { Append(d, part) : d \in here } \cap ((DOMAIN fs) \cup ds)
         IN select_from(next, Tail(parts), fs, ds)

glob(directory, pattern, fs, ds) ==
    select_from({ directory }, split_path(pattern), fs, ds)

\* find_existing_scripts(managed_dirs, filename)
find_existing_scripts(managed_dirs, filename, fs, ds) ==
    UNION { { file_path \in glob(managed_dirs[i], filename, fs, ds) :
                Last(file_path) \notin EXCLUDED_FILES } :
            i \in 1..Len(managed_dirs) }

\* the map fs without the paths in gone
remove_files(fs, gone) == [p \in (DOMAIN fs) \ gone |-> fs[p]]

\* the map fs with path holding content
write_file(fs, path, content) ==
    [p \in (DOMAIN fs) \cup { path } |-> IF p = path THEN content ELSE fs[p]]

\* what a failed f.write can leave in the opened (truncated) file
partial_writes(content) ==
    IF content = << >> THEN { << >> }
    ELSE { SubSeq(content, 1, k) : k \in 0..(Len(content) - 1) }

\* replace_scripts without the "continue" of its first except clause: a failed
\* mkdir falls through to the deletion of the existing scripts
replace_script_no_continue(script, managed_dirs, fs, ds, outcome, unlink_fails, left) ==
    LET filename == script.filename
        target_dir == script.directory
        ds1 == IF outcome = "mkdir" THEN ds ELSE ds \cup { target_dir }
        existing_scripts == find_existing_scripts(managed_dirs, filename, fs, ds1)
        unlinked == (existing_scripts \cap DOMAIN fs) \ unlink_fails
        fs1 == remove_files(fs, unlinked)
        new_script_path == walk(target_dir, split_path(filename), ds1)
        opens == outcome \notin { "mkdir", "open" } /\ new_script_path # NoPath
                    /\ new_script_path \notin ds1
    IN [files |-> IF ~opens THEN fs1
                  ELSE write_file(fs1, new_script_path,
                                  IF outcome = "write" THEN left ELSE script.content),
        dirs |-> ds1,
        log |-> [filename |-> filename, directory |-> target_dir,
                 failed |-> IF outcome = "mkdir" THEN "mkdir"
                            ELSE IF ~opens THEN "open"
                            ELSE IF outcome = "write" THEN "write" ELSE "none",
                 deleted |-> unlinked,
                 written |-> IF opens /\ outcome # "write"
                             THEN new_script_path ELSE NoPath]]

\* one iteration of the loop of replace_scripts.  outcome says which call
\* raises: "ok", "mkdir", "open" (the open of the new file) or "write" (f.write,
\* leaving left in the file); unlink_fails are the existing scripts whose
\* unlink raises.  Returns the new files and directories and the log.
replace_script(script, managed_dirs, fs, ds, outcome, unlink_fails, left) ==
    LET filename == script.filename
        target_dir == script.directory
        ds1 == ds \cup { target_dir }
        existing_scripts == find_existing_scripts(managed_dirs, filename, fs, ds1)
        unlinked == (existing_scripts \cap DOMAIN fs) \ unlink_fails
        fs1 == remove_files(fs, unlinked)
        new_script_path == walk(target_dir, split_path(filename), ds1)
        opens == outcome # "open" /\ new_script_path # NoPath /\ new_script_path \notin ds1
    IN IF outcome = "mkdir"
       THEN [files |-> fs, dirs |-> ds,
             log |-> [filename |-> filename, directory |-> target_dir,
                      failed |-> "mkdir", deleted |-> { }, written |-> NoPath]]
       ELSE [files |-> IF ~opens THEN fs1
                       ELSE write_file(fs1, new_script_path,
                                       IF outcome = "write" THEN left ELSE script.content),
             dirs |-> ds1,
             log |-> [filename |-> filename, directory |-> target_dir,
                      failed |-> IF ~opens THEN "open"
                                 ELSE IF outcome = "write" THEN "write" ELSE "none",
                      deleted |-> unlinked,
                      written |-> IF opens /\ outcome # "write"
                                  THEN new_script_path ELSE NoPath]]

(***************************************************************************)
(* REVERT-to-GPT-scripts.py: the prompts                                   *)
(***************************************************************************)
UpperCase ==
    << "A", "B", "C", "D", "E", "F", "G", "H", "I", "J", "K", "L", "M",
       "N", "O", "P", "Q", "R", "S", "T", "U", "V", "W", "X", "Y", "Z" >>
LowerCase ==
    << "a", "b", "c", "d", "e", "f", "g", "h", "i", "j", "k", "l", "m",
       "n", "o", "p", "q", "r", "s", "t", "u", "v", "w", "x", "y", "z" >>

LowerOf ==
    [c \in { UpperCase[i] : i \in 1..Len(UpperCase) } |->
        LowerCase[CHOOSE i \in 1..Len(UpperCase) : UpperCase[i] = c]]

lower_char(c) == IF c \in DOMAIN LowerOf THEN LowerOf[c] ELSE c

\* str.lower
lower(s) == [i \in 1..Len(s) |-> lower_char(s[i])]

\* str.isdigit
isdigit(s) == s # << >> /\ \A i \in 1..Len(s) : s[i] \in Digits

digit_value(c) == CHOOSE v \in 0..9 : << "0", "1", "2", "3", "4", "5", "6", "7", "8", "9" >>[v + 1] = c

\* int(choice) for a string of decimal digits
RECURSIVE int(_)
int(s) ==
    IF s = << >> THEN 0
    ELSE 10 * int(SubSeq(s, 1, Len(s) - 1)) + digit_value(s[Len(s)])

\* str(idx)
RECURSIVE str(_)
str(n) ==
    IF n < 10 THEN << << "0", "1", "2", "3", "4", "5", "6", "7", "8", "9" >>[n + 1] >>
    ELSE str(n \div 10) \o str(n % 10)

IAmSure == << "I", " ", "a", "m", " ", "s", "u", "r", "e" >>
DotGPTBAK == << ".", "G", "P", "T", "B", "A", "K" >>
StarGPTBAK == << "*" >> \o DotGPTBAK

\* the choice prompt_user_to_select_gptbak accepts: 0 when the line is refused
accepted_choice(line, n) ==
    LET choice == strip(line)
    IN IF ~isdigit(choice) THEN 0
       ELSE IF 1 <= int(choice) /\ int(choice) <= n THEN int(choice) ELSE 0

\* an off-by-one slip: gptbak_files[choice] for gptbak_files[choice - 1]
selected_file_off_by_one(gptbak_files_, choice) ==
    gptbak_files_[IF choice < Len(gptbak_files_) THEN choice + 1 ELSE 1]

\* selected = gptbak_files[choice - 1] (the model's sequences start at 1)
selected_file(gptbak_files_, choice) == gptbak_files_[choice]

\* a slip: the confirmation compared case-insensitively
is_confirmed_folded(line) == lower(strip(line)) = lower(IAmSure)

\* confirm_overwrite: the test that ends the loop
is_confirmed(line) == strip(line) = IAmSure

\* a slip: every answer but "n" goes round again
is_proceed_unless_n(line) == lower(strip(line)) # << "n" >>

\* proceed not in ['y', 'yes'], negated
is_proceed(line) == lower(strip(line)) \in { << "y" >>, << "y", "e", "s" >> }

\* list_gptbak_files: directory.glob('*.GPTBAK'), as a set
list_gptbak_files(directory, fs, ds) == glob(directory, StarGPTBAK, fs, ds)

\* the orders in which the glob may yield the set S
Orders(S) ==
    { o \in [1..Cardinality(S) -> S] : \A i, j \in 1..Cardinality(S) : o[i] = o[j] => i = j }

\* sanitize_filename_comment
sanitize_filename_comment(comment) ==
    [i \in 1..Len(comment) |->
        IF comment[i] \in { "<", ">", ":", "\"", "/", "\\", "|", "?", "*" }
        THEN "_" ELSE comment[i]]

\* Path.stem and Path.suffix of a file name
suffix_start(name) ==
    LET dots == { i \in 2..Len(name) : name[i] = "." /\ i < Len(name) }
    IN IF dots = { } THEN Len(name) + 1 ELSE CHOOSE i \in dots : \A j \in dots : j <= i
stem(name) == SubSeq(name, 1, suffix_start(name) - 1)
suffix(name) == SubSeq(name, suffix_start(name), Len(name))

\* rename_gptbak_file: the files afterwards; rename_fails: os.rename raises
rename_gptbak_file(gptbak_file, comment, fs, ds, rename_fails) ==
    LET sanitized_comment == sanitize_filename_comment(comment)
        new_filename == stem(Last(gptbak_file)) \o << " ", "-", " " >>
                            \o sanitized_comment \o suffix(Last(gptbak_file))
        new_filepath == Append(SubSeq(gptbak_file, 1, Len(gptbak_file) - 1), new_filename)
    IN IF new_filepath \in (DOMAIN fs) \cup ds THEN fs
       ELSE IF rename_fails \/ gptbak_file \notin DOMAIN fs THEN fs
       ELSE write_file(remove_files(fs, { gptbak_file }), new_filepath, fs[gptbak_file])

(***************************************************************************)
(* REVERT-to-GPT-scripts.py: the inputs of the model                       *)
(***************************************************************************)
DotSlashCopyscriptsPy == << ".", "/" >> \o CopyscriptsPy
DotDotSlashAPy == << ".", ".", "/" >> \o APy
StarPy == << "*" >> \o DotPy
Sub == << "s", "u", "b" >>
Other == << "o", "t", "h", "e", "r" >>

LocatedWorkingDirectory == SubSeq(LocatedInThe, 2, Len(LocatedInThe)) \o WorkingDirectory
LocatedSubdirectory(d) ==
    SubSeq(LocatedInThe, 2, Len(LocatedInThe)) \o << "'" >> \o d \o SubdirectorySuffix

\* the headers an artifact's sections may carry, in any combination
SectionChoices ==
    { [filename |-> APy, location |-> LocatedWorkingDirectory],
      [filename |-> APy, location |-> LocatedSubdirectory(Scripts)],
      [filename |-> CopyscriptsPy, location |-> LocatedWorkingDirectory],
      [filename |-> DotSlashCopyscriptsPy, location |-> LocatedWorkingDirectory],
      [filename |-> DotDotSlashAPy, location |-> LocatedWorkingDirectory] }

\* headers that are tried alone and in front of a plain section: a location
\* that is not managed, and file names that are glob patterns
SpecialChoices ==
    { [filename |-> APy, location |-> LocatedSubdirectory(Other)],
      [filename |-> StarPy, location |-> LocatedSubdirectory(Scripts)],
      [filename |-> StarGPTBAK, location |-> LocatedSubdirectory(Scripts)] }

\* the content of the i-th section of an artifact
SectionContent(i) == << << "n", "m", "k", "j" >>[i] >>

RECURSIVE SectionLists(_)
SectionLists(n) ==
    IF n = 0 THEN { << >> }
    ELSE LET shorter == SectionLists(n - 1)
         IN shorter \cup { Append(l, c) : l \in { x \in shorter : Len(x) = n - 1 },
                                          c \in SectionChoices }

SpecialLists ==
    { << c >> : c \in SpecialChoices }
        \cup { << c, [filename |-> APy, location |-> LocatedWorkingDirectory] >> :
                 c \in SpecialChoices }

Delimiter20 == [i \in 1..20 |-> "="]

\* one section as the exporters lay it out: header, blank line, content, delimiter
section_text(idx_, filename, location, file_contents) ==
    str(idx_) \o << ")", " " >> \o filename \o << " ", "(" >> \o location
        \o << ")", ":", "\n", "\n" >> \o file_contents \o << "\n", "\n" >>
        \o Delimiter20 \o << "\n", "\n" >>

\* an artifact: a preamble, a delimiter and the sections
ArtifactText(sections) ==
    << "p", "\n", "\n" >> \o Delimiter20 \o << "\n", "\n" >>
        \o concat([i \in 1..Len(sections) |->
                     section_text(i, sections[i].filename, sections[i].location,
                                  SectionContent(i))])

ArtifactName(k) == << "t" >> \o str(k) \o DotGPTBAK

ParentDir == << DotDot >>
SubDir == << Sub >>

\* a working directory with scripts in both managed directories and below
RichTree ==
    [files |-> ( << RevertPy >> :> << "r" >> ) @@ ( << CopyscriptsPy >> :> << "c" >> )
               @@ ( << APy >> :> << "o" >> ) @@ ( << Scripts, APy >> :> << "s" >> )
               @@ ( << Sub, APy >> :> << "d" >> ),
     dirs |-> { Cwd, ParentDir, ScriptsDir, SubDir }]

\* a working directory without a 'scripts' subdirectory
BareTree ==
    [files |-> ( << RevertPy >> :> << "r" >> ),
     dirs |-> { Cwd, ParentDir }]

RECURSIVE with_artifacts(_, _, _)
with_artifacts(fs, n, text) ==
    IF n = 0 THEN fs
    ELSE write_file(with_artifacts(fs, n - 1, text), << ArtifactName(n) >>, text)

EofLine == << "<EOF>" >>
NoLine == << "<none>" >>

SelectLines ==
    { << "1" >>, << "3" >>, << "0" >>, << "0", "2" >>, << " ", "2", " " >>,
      << "x" >>, << >> }

ConfirmLines ==
    { IAmSure, << " " >> \o IAmSure \o << " " >>, lower(IAmSure),
      IAmSure \o << "." >> }

CommentLines == { << " " >>, << "a", "/", "b" >> }

ProceedLines ==
    { << "y" >>, << " ", "Y", "e", "s", " " >>, << "y", "e", "s", "!" >>, << "n" >> }

(***************************************************************************)
(* REVERT-to-GPT-scripts.py: main()                                        *)
(***************************************************************************)
FsVars == << files, dirs >>

\* the normalizer is not running
IdleNorm ==
    /\ nname = << >>
    /\ ndisk = << >>
    /\ ndecodes = FALSE
    /\ nreports = << >>

InitImport ==
    /\ prog = "importer"
    /\ IdleNorm
    /\ IdleExport
    /\ pc = "list"
    /\ \/ \E sections \in SectionLists(MaxSections) \cup SpecialLists :
             /\ files = with_artifacts(RichTree.files, 1, ArtifactText(sections))
             /\ dirs = RichTree.dirs
       \/ \E sections \in SectionLists(1) :
             /\ files = with_artifacts(BareTree.files, 1, ArtifactText(sections))
             /\ dirs = BareTree.dirs
       \/ \E n \in (0..MaxArtifacts) \ { 1 } :
             /\ files = with_artifacts(RichTree.files, n,
                            ArtifactText(<< [filename |-> APy,
                                             location |-> LocatedWorkingDirectory] >>))
             /\ dirs = RichTree.dirs
    /\ gptbak_files = << >>
    /\ selected = NoPath
    /\ selection_number = 0
    /\ input = NoLine
    /\ scripts = << >>
    /\ idx = 0
    /\ exit_code = -1
    /\ faults = 0
    /\ iterations = 0
    /\ logged = << >>

\* prompt_user_to_select_gptbak: no artifact, sys.exit(1)
SelectNone ==
    /\ prog = "importer" /\ pc = "list" /\ iterations < MaxIterations
    /\ list_gptbak_files(Cwd, files, dirs) = { }
    /\ pc' = "exit"
    /\ exit_code' = 1
    /\ iterations' = iterations + 1
    /\ gptbak_files' = << >>
    /\ input' = NoLine
    /\ UNCHANGED << prog, varsN, varsE, files, dirs, selected, selection_number,
                    scripts, idx, faults, logged >>

\* prompt_user_to_select_gptbak: exactly one artifact is selected by default
SelectOnly ==
    /\ prog = "importer" /\ pc = "list" /\ iterations < MaxIterations
    /\ Cardinality(list_gptbak_files(Cwd, files, dirs)) = 1
    /\ gptbak_files' \in Orders(list_gptbak_files(Cwd, files, dirs))
    /\ selected' = gptbak_files'[1]
    /\ selection_number' = 1
    /\ pc' = "confirm"
    /\ iterations' = iterations + 1
    /\ input' = NoLine
    /\ UNCHANGED << prog, varsN, varsE, files, dirs, scripts, idx, exit_code,
                    faults, logged >>

\* prompt_user_to_select_gptbak: several artifacts are listed, in the glob's order
SelectMany ==
    /\ prog = "importer" /\ pc = "list" /\ iterations < MaxIterations
    /\ Cardinality(list_gptbak_files(Cwd, files, dirs)) > 1
    /\ gptbak_files' \in Orders(list_gptbak_files(Cwd, files, dirs))
    /\ pc' = "select"
    /\ iterations' = iterations + 1
    /\ input' = NoLine
    /\ UNCHANGED << prog, varsN, varsE, files, dirs, selected, selection_number,
                    scripts, idx, exit_code, faults, logged >>

\* prompt_user_to_select_gptbak: one pass of the while loop on a line of input
SelectInput ==
    /\ prog = "importer" /\ pc = "select"
    /\ \E line \in SelectLines :
         LET choice == accepted_choice(line, Len(gptbak_files))
         IN /\ input' = line
            /\ IF choice # 0
               THEN /\ selected' = selected_file(gptbak_files, choice)
                    /\ selection_number' = choice
                    /\ pc' = "confirm"
               ELSE UNCHANGED << selected, selection_number, pc >>
    /\ UNCHANGED << prog, varsN, varsE, files, dirs, gptbak_files, scripts, idx, exit_code,
                    faults, iterations, logged >>

\* prompt_user_to_select_gptbak: input() raises EOFError, which the loop's
\* "except Exception" logs, and the loop goes round again
SelectEOF ==
    /\ prog = "importer" /\ pc = "select"
    /\ input' = EofLine
    /\ UNCHANGED << prog, varsN, varsE, pc, files, dirs, gptbak_files, selected,
                    selection_number, scripts, idx, exit_code, faults, iterations, logged >>

\* confirm_overwrite: one pass of the while loop
ConfirmInput ==
    /\ prog = "importer" /\ pc = "confirm"
    /\ \E line \in ConfirmLines :
         /\ input' = line
         /\ pc' = IF is_confirmed(line) THEN "parse" ELSE "confirm"
    /\ UNCHANGED << prog, varsN, varsE, files, dirs, gptbak_files, selected, selection_number,
                    scripts, idx, exit_code, faults, iterations, logged >>

\* input() raises EOFError outside a try: the traceback ends the process
PromptEOF ==
    /\ prog = "importer" /\ pc \in { "confirm", "amend", "continue" }
    /\ input' = EofLine
    /\ pc' = "exit"
    /\ exit_code' = 1
    /\ UNCHANGED << prog, varsN, varsE, files, dirs, gptbak_files, selected, selection_number,
                    scripts, idx, faults, iterations, logged >>

\* main: scripts = parse_gptbak_file(selected_gptbak)
Parse ==
    /\ prog = "importer" /\ pc = "parse"
    /\ scripts' = parse_gptbak_file(files[selected])
    /\ idx' = 1
    /\ pc' = IF scripts' = << >> THEN "amend" ELSE "replace"
    /\ logged' = << >>
    /\ input' = NoLine
    /\ UNCHANGED << prog, varsN, varsE, files, dirs, gptbak_files, selected, selection_number,
                    exit_code, faults, iterations >>

\* replace_scripts: one iteration of "for script in scripts"
ReplaceScript ==
    /\ prog = "importer" /\ pc = "replace"
    /\ \E outcome \in { "ok", "mkdir", "open", "write" } :
       \E unlink_fails \in SUBSET find_existing_scripts(MANAGED_DIRECTORIES,
                                   scripts[idx].filename, files,
                                   dirs \cup { scripts[idx].directory }) :
       \E left \in partial_writes(scripts[idx].content) :
         LET n == Cardinality(unlink_fails) + (IF outcome = "ok" THEN 0 ELSE 1)
             r == replace_script(scripts[idx], MANAGED_DIRECTORIES, files, dirs,
                                 outcome, unlink_fails, left)
         IN /\ faults + n <= MaxFaults
            /\ (outcome = "mkdir" => unlink_fails = { })
            /\ faults' = faults + n
            /\ files' = r.files
            /\ dirs' = r.dirs
            /\ logged' = Append(logged, r.log)
    /\ idx' = idx + 1
    /\ pc' = IF idx = Len(scripts) THEN "amend" ELSE "replace"
    /\ UNCHANGED << prog, varsN, varsE, gptbak_files, selected, selection_number, input,
                    scripts, exit_code, iterations >>

\* prompt_amend_filename, and what main does next: back to the selection when
\* no script was found, else the re-listing of the artifacts
AmendInput ==
    /\ prog = "importer" /\ pc = "amend"
    /\ \E line \in CommentLines, rename_fails \in BOOLEAN :
         LET comment == strip(line)
         IN /\ input' = line
            /\ (rename_fails => comment # << >> /\ faults < MaxFaults)
            /\ faults' = IF rename_fails THEN faults + 1 ELSE faults
            /\ files' = IF comment # << >>
                        THEN rename_gptbak_file(selected, comment, files, dirs, rename_fails)
                        ELSE files
    /\ pc' = IF scripts = << >> THEN "list"
             ELSE IF list_gptbak_files(Cwd, files', dirs) = { } THEN "done"
             ELSE "continue"
    /\ exit_code' = IF pc' = "done" THEN 0 ELSE exit_code
    /\ UNCHANGED << prog, varsN, varsE, dirs, gptbak_files, selected, selection_number,
                    scripts, idx, iterations, logged >>

\* main: "Would you like to restore another GPTBAK file? (y/n)"
ContinueInput ==
    /\ prog = "importer" /\ pc = "continue"
    /\ \E line \in ProceedLines :
         /\ input' = line
         /\ pc' = IF is_proceed(line) THEN "list" ELSE "done"
    /\ exit_code' = IF pc' = "done" THEN 0 ELSE exit_code
    /\ UNCHANGED << prog, varsN, varsE, files, dirs, gptbak_files, selected, selection_number,
                    scripts, idx, faults, iterations, logged >>

NextImport ==
    \/ SelectNone \/ SelectOnly \/ SelectMany \/ SelectInput \/ SelectEOF
    \/ ConfirmInput \/ PromptEOF \/ Parse \/ ReplaceScript \/ AmendInput
    \/ ContinueInput

SpecImport == InitImport /\ [][NextImport]_vars

(***************************************************************************)
(* REVERT-to-GPT-scripts.py: the properties of the importer                *)
(***************************************************************************)
\* the step is one of replace_scripts over a script of the list
IsReplaceStep == pc = "replace" /\ Len(logged') = Len(logged) + 1

\* the paths that a step creates, rewrites or removes
Touched == { p \in (DOMAIN files) \cup (DOMAIN files') :
               ~ (p \in DOMAIN files /\ p \in DOMAIN files' /\ files'[p] = files[p]) }

\* the mutations and the order of the phases that both readings of C2 share
GatedByPhase ==
    /\ (FsVars' # FsVars => pc \in { "replace", "amend" })
    /\ (pc' = "parse" /\ pc # "parse" => pc = "confirm")
    /\ (pc' = "replace" => pc \in { "parse", "replace" })
    /\ (pc' = "amend" => pc \in { "parse", "replace" })

C3_LocationFidelity ==
    [][ IsReplaceStep =>
          \A p \in DOMAIN files' :
             (p \notin DOMAIN files \/ files'[p] # files[p])
                => /\ \E i \in 1..Len(MANAGED_DIRECTORIES) :
                         Parent(p) = MANAGED_DIRECTORIES[i]
                   /\ Parent(p) = scripts[idx].directory ]_vars

\* C6: the importer never creates, overwrites or deletes a file whose name is
\* in EXCLUDED_FILES, whatever the headers of the artifact contain.
C6_ExclusionSet ==
    [][ prog = "importer" => \A p \in Touched : Last(p) \notin EXCLUDED_FILES ]_vars

\* C9: without any artifact the importer exits with a code other than zero, asks
\* nothing and changes nothing; with exactly one artifact it selects it without
\* asking; with several it asks again on every line that is not a number of the
\* list, and the artifact it returns is the one listed at the number entered,
\* counted from one.
C9_ArtifactSelection ==
    [][ /\ (pc = "list" /\ list_gptbak_files(Cwd, files, dirs) = { }
              => /\ pc' = "exit" /\ exit_code' # 0
                 /\ input' = NoLine /\ FsVars' = FsVars)
        /\ (pc = "list" /\ Cardinality(list_gptbak_files(Cwd, files, dirs)) = 1
              => /\ pc' = "confirm" /\ input' = NoLine
                 /\ { selected' } = list_gptbak_files(Cwd, files, dirs))
        /\ (pc = "list" /\ Cardinality(list_gptbak_files(Cwd, files, dirs)) > 1
              => /\ pc' = "select" /\ FsVars' = FsVars
                 /\ { gptbak_files'[i] : i \in 1..Len(gptbak_files') }
                       = list_gptbak_files(Cwd, files, dirs))
        /\ (pc = "select"
              => LET entered == strip(input')
                     numbered == /\ isdigit(entered)
                                 /\ int(entered) \in 1..Len(gptbak_files)
                 IN /\ FsVars' = FsVars
                    /\ gptbak_files' = gptbak_files
                    /\ IF numbered
                       THEN pc' = "confirm" /\ selected' = gptbak_files[int(entered)]
                       ELSE pc' = "select" /\ selected' = selected) ]_vars

\* the second of several artifacts was entered and is the one selected
C9_Witness ==
    /\ pc = "confirm"
    /\ Len(gptbak_files) > 1
    /\ strip(input) = << "2" >>
    /\ selected = gptbak_files[2]

\* every script of the list is taken in turn, whatever happened to the one before
LaterSectionsProcessed ==
    IsReplaceStep =>
       /\ scripts' = scripts
       /\ idx' = idx + 1
       /\ pc' = IF idx < Len(scripts) THEN "replace" ELSE "amend"

YesAnswers == { << "y" >>, << "y", "e", "s" >> }

\* what both readings of C11 share: once the scripts of an artifact have been
\* replaced and the comment read, the artifacts are listed again, the importer
\* stops with code 0 when none is left and asks otherwise; an answer other than
\* y or yes (in any case, white space around it aside) stops it with code 0, y
\* or yes goes back to the selection; and once stopped nothing more happens.
LoopAfterReplace ==
    /\ (pc = "amend" /\ scripts # << >> /\ input' # EofLine =>
          /\ pc' = IF list_gptbak_files(Cwd, files', dirs') = { }
                   THEN "done" ELSE "continue"
          /\ Len(logged) = Len(scripts))
    /\ (pc = "continue" /\ input' # EofLine =>
          /\ pc' = IF lower(strip(input')) \in YesAnswers THEN "list" ELSE "done"
          /\ FsVars' = FsVars)
    /\ (pc' = "done" => exit_code' = 0)
    /\ pc \notin { "done", "exit" }

DeletedOrChanged ==
    { p \in DOMAIN files : p \notin DOMAIN files' \/ files'[p] # files[p] }

\* C15: replacing the script of a section deletes only files that have exactly
\* the file name of the section and lie directly in the working directory or
\* directly in 'scripts'; a file of that name anywhere else, and every file of
\* another name, is left as it is.
C15_DeletionScope ==
    [][ IsReplaceStep =>
          \A p \in DeletedOrChanged :
             /\ Last(p) = scripts[idx].filename
             /\ \E i \in 1..Len(MANAGED_DIRECTORIES) : Parent(p) = MANAGED_DIRECTORIES[i] ]_vars

\* a file reached by name filename from directory d lies directly in d
ExistsIn(d, filename) ==
    LET p == walk(d, split_path(filename), dirs)
    IN p \in DOMAIN files /\ Parent(p) = d

\* C17: when the scripts of an artifact have been replaced and no file
\* operation has failed, every file name restored exists in exactly one of the
\* two managed directories, the one that the last section of that name is
\* located in, so a file of that name in the other one is gone.
C17_SingleCopy ==
    (prog = "importer" /\ pc = "amend" /\ scripts # << >> /\ faults = 0) =>
       \A i \in 1..Len(scripts) :
          LET last == CHOOSE j \in i..Len(scripts) :
                         /\ scripts[j].filename = scripts[i].filename
                         /\ \A k \in (j + 1)..Len(scripts) :
                               scripts[k].filename # scripts[i].filename
          IN { MANAGED_DIRECTORIES[m] : m \in { n \in 1..Len(MANAGED_DIRECTORIES) :
                    ExistsIn(MANAGED_DIRECTORIES[n], scripts[i].filename) } }
                = { scripts[last].directory }

(***************************************************************************)
(* copyscripts.py and COPYSCRIPTS_SELECTIVE.py: collecting the files       *)
(***************************************************************************)
\* the two exporters, by the name of their file
Copyscripts == "copyscripts.py"
Selective == "COPYSCRIPTS_SELECTIVE.py"

CopyscriptsSelectivePy ==
    << "C", "O", "P", "Y", "S", "C", "R", "I", "P", "T", "S", "_", "S", "E", "L", "E",
      "C", "T", "I", "V", "E", ".", "p", "y" >>

DotPs == << ".", "p", "s" >>
DotJson == << ".", "j", "s", "o", "n" >>
DotLog == << ".", "l", "o", "g" >>
DotGpt == << ".", "g", "p", "t" >>
RequirementsTxt ==
    << "r", "e", "q", "u", "i", "r", "e", "m", "e", "n", "t", "s", ".", "t", "x", "t" >>
Venv == << "v", "e", "n", "v" >>
DotVenv == << ".", "v", "e", "n", "v" >>
ErrorReadingFile ==
    << "[", "E", "r", "r", "o", "r", " ", "r", "e", "a", "d", "i", "n", "g", " ", "f",
      "i", "l", "e", "]" >>

\* the names COPYSCRIPTS_SELECTIVE.py excludes besides its own
SelectiveExcluded ==
    { << "p", "a", "r", "s", "e", "t", "a", "b", ".", "p", "y" >>,
      << "b", "a", "c", "k", "u", "p", "_", "c", "l", "e", "a", "n", "u", "p", ".", "p", "y" >>,
      << "v", "i", "s", "u", "a", "l", "i", "s", "a", "t", "i", "o", "n", "_", "u", "t", "i", "l", "s", ".", "p", "y" >>,
      << "v", "i", "s", "u", "a", "l", "i", "z", "e", "_", "d", "a", "t", "a", ".", "p", "y" >>,
      << "b", "a", "c", "k", "u", "p", "_", "u", "t", "i", "l", "s", ".", "p", "y" >>,
      << "c", "o", "p", "y", "s", "c", "r", "i", "p", "t", "s", ".", "p", "y" >>,
      << "C", "O", "P", "Y", "S", "C", "R", "I", "P", "T", "S", "_", "S", "E", "L", "E", "C", "T", "I", "V", "E", ".", "p", "y" >>,
      << "r", "e", "p", "a", "i", "r", "-", "r", "e", "m", "a", "r", "k", "s", ".", "p", "y" >>,
      << "c", "s", "p", "e", "l", "l", ".", "j", "s", "o", "n" >>,
      << "r", "e", "v", "e", "r", "t", "-", "t", "o", "-", "g", "p", "t", "-", "s", "c", "r", "i", "p", "t", "s", ".", "p", "y" >> }

\* ext.lower() if ext.startswith('.') else f".{ext.lower()}"
normalize_extension(ext) ==
    IF startswith(ext, << "." >>) THEN lower(ext) ELSE << "." >> \o lower(ext)

\* the extensions list of the main block
extensions(v, a) ==
    (IF v = Copyscripts THEN << DotPy >> ELSE << DotPy, DotPs, DotJson >>)
        \o [i \in 1..Len(a.extensions) |-> normalize_extension(a.extensions[i])]

\* script_filename = os.path.basename(__file__).lower()
script_filename(name) == lower(name)

excluded_filenames(v, name) ==
    IF v = Copyscripts THEN { script_filename(name) }
    ELSE { script_filename(name) } \cup SelectiveExcluded

\* append every folder to base_dirs that is not in it yet
RECURSIVE append_new(_, _)
append_new(base, more) ==
    IF more = << >> THEN base
    ELSE append_new(IF \E i \in 1..Len(base) : base[i] = Head(more)
                    THEN base ELSE Append(base, Head(more)),
                    Tail(more))

\* base_dirs: os.path.join(current_dir, folder) for a folder name of one part
base_dirs(v, a) ==
    LET additional == [i \in 1..Len(a.folders) |-> << a.folders[i] >>]
    IN IF v = Copyscripts THEN append_new(<< Cwd, ScriptsDir >>, additional)
       ELSE << Cwd, ScriptsDir >> \o additional

\* exclude_subdirs_map.get(base_dir, []), plus always_excluded_subdirs
exclude_subdirs(v, base_dir) ==
    (IF base_dir = Cwd THEN { Scripts } ELSE { })
        \cup (IF v = Copyscripts THEN { } ELSE { Venv, DotVenv })

\* the test of the lower-cased name against the exclusion set, with the
\* lower-casing left out
is_excluded_as_listed(file, excluded) == file \in excluded

\* file.lower() in excluded_filenames
is_excluded(file, excluded) == lower(file) \in excluded

\* the tests collect_files applies to a file name
is_collected(v, file, exts, excluded) ==
    /\ ~ startswith(file, << "." >>)
    /\ ~ is_excluded(file, excluded)
    /\ \/ \E i \in 1..Len(exts) : endswith(lower(file), lower(exts[i]))
       \/ v = Selective /\ lower(file) = RequirementsTxt

\* the orders in which os.walk(root) can yield those of the files wanted that
\* are below root: the files of a directory, then its subdirectories one after
\* the other, both in the order the OS lists them
RECURSIVE walk_orders(_, _, _, _)
RECURSIVE walk_chain(_, _, _, _)
walk_orders(root, excluded, wanted, ds) ==
    LET here == { p \in wanted :
                    Len(p) = Len(root) + 1 /\ SubSeq(p, 1, Len(root)) = root }
        below == { d \in ds :
                     /\ Len(d) = Len(root) + 1 /\ SubSeq(d, 1, Len(root)) = root
                     /\ Last(d) # DotDot
                     /\ Last(d) \notin excluded
                     /\ ~ startswith(Last(d), << "." >>) }
    IN { first \o rest :
           first \in Orders(here),
           rest \in UNION { walk_chain(order, excluded, wanted, ds) :
                              order \in Orders(below) } }
walk_chain(roots, excluded, wanted, ds) ==
    IF roots = << >> THEN { << >> }
    ELSE { first \o rest :
             first \in walk_orders(Head(roots), excluded, wanted, ds),
             rest \in walk_chain(Tail(roots), excluded, wanted, ds) }

\* the files wanted in the orders collect_files can meet them, base directory
\* by base directory; a base directory that does not exist is skipped
RECURSIVE visit_orders(_, _, _, _)
visit_orders(v, bases, wanted, ds) ==
    IF bases = << >> THEN { << >> }
    ELSE { first \o rest :
             first \in (IF Head(bases) \in ds
                        THEN walk_orders(Head(bases), exclude_subdirs(v, Head(bases)),
                                         wanted, ds)
                        ELSE { << >> }),
             rest \in visit_orders(v, Tail(bases), wanted, ds) }

\* filename_map[file.lower()].append(full_path)
append_path(map, key, path) ==
    IF \E i \in 1..Len(map) : map[i].name = key
    THEN LET i == CHOOSE k \in 1..Len(map) : map[k].name = key
         IN [map EXCEPT ![i].paths = Append(@, path)]
    ELSE Append(map, [name |-> key, paths |-> << path >>])

\* the filename_map of the files met, in the order visited
RECURSIVE filename_map_of(_)
filename_map_of(visited) ==
    IF visited = << >> THEN << >>
    ELSE append_path(filename_map_of(SubSeq(visited, 1, Len(visited) - 1)),
                     lower(Last(visited[Len(visited)])), visited[Len(visited)])

\* collect_files: the maps it can return, one for each order of the walk
collect_files(v, bases, exts, excluded, fs, ds) ==
    LET wanted == { p \in DOMAIN fs : is_collected(v, Last(p), exts, excluded) }
    IN { filename_map_of(visited) : visited \in visit_orders(v, bases, wanted, ds) }

\* duplicate_filenames, and what is left when they are deleted
is_duplicate(entry) == Len(entry.paths) > 1
is_unique(entry) == Len(entry.paths) <= 1
duplicate_filenames(map) == SelectSeq(map, is_duplicate)
unique_files(map) == SelectSeq(map, is_unique)

\* alert_duplicate_filenames of COPYSCRIPTS_SELECTIVE.py: "pass"
\* alert_duplicate_filenames of copyscripts.py: every path is printed
alert_duplicate_filenames(v, duplicate_files) ==
    IF v = Copyscripts
    THEN UNION { { duplicate_files[i].paths[k] : k \in 1..Len(duplicate_files[i].paths) } :
                 i \in 1..Len(duplicate_files) }
    ELSE { }

(***************************************************************************)
(* copyscripts.py and COPYSCRIPTS_SELECTIVE.py: the document               *)
(***************************************************************************)
\* the character U+2019, which a TLA+ string cannot hold
RightQuote == "<U+2019>"

\* header of copyscripts.py's generate_output
GptHeader ==
    << "I", "'", "v", "e", " ", "l", "i", "s", "t", "e", "d", " ", "a", "l", "l", " ",
      "t", "h", "e", " ", "s", "c", "r", "i", "p", "t", "s", " ", "i", "n", " ", "t", "h",
      "i", "s", " ", "p", "r", "o", "j", "e", "c", "t", " ", "b", "e", "l", "o", "w", ".",
      " ", "P", "l", "e", "a", "s", "e", " ", "p", "r", "o", "v", "i", "d", "e", " ", "a",
      " ", "c", "o", "m", "p", "l", "e", "t", "e", " ", "f", "i", "x", " ", "f", "o", "r",
      " ", "t", "h", "e", " ", "e", "r", "r", "o", "r", " ", "s", "h", "o", "w", "n", ".",
      " ", "I", "f", " ", "a", "n", "y", " ", "s", "c", "r", "i", "p", "t", "s", " ", "n",
      "e", "e", "d", " ", "m", "o", "d", "i", "f", "i", "c", "a", "t", "i", "o", "n", ",",
      " ", "p", "r", "o", "v", "i", "d", "e", " ", "m", "e", " ", "w", "i", "t", "h", " ",
      "t", "h", "e", " ", "c", "o", "m", "p", "l", "e", "t", "e", ",", " ", "u", "n", "t",
      "r", "u", "n", "c", "a", "t", "e", "d", ",", " ", "w", "o", "r", "k", "i", "n", "g",
      " ", "r", "e", "v", "i", "s", "i", "o", "n", ",", " ", "w", "i", "t", "h", "o", "u",
      "t", " ", "a", "n", "y", " ", "p", "l", "a", "c", "e", "h", "o", "l", "d", "e", "r",
      "s", " ", "o", "r", " ", "m", "i", "s", "s", "i", "n", "g", " ", "c", "o", "d", "e",
      " ", "o", "r", " ", "e", "x", "a", "m", "p", "l", "e", " ", "c", "o", "d", "e", " ",
      "o", "r", " ", "h", "y", "p", "o", "t", "h", "e", "t", "i", "c", "a", "l", " ", "c",
      "o", "d", "e", ".", " ", "E", "v", "e", "r", "y", "t", "h", "i", "n", "g", " ", "y",
      "o", "u", " ", "p", "r", "o", "v", "i", "d", "e", " ", "m", "u", "s", "t", " ", "b",
      "e", " ", "f", "u", "l", "l", "y", " ", "w", "o", "r", "k", "i", "n", "g", ",", " ",
      "e", "r", "r", "o", "r", "-", "f", "r", "e", "e", " ", "a", "n", "d", " ", "p", "r",
      "o", "d", "u", "c", "t", "i", "o", "n", "-", "r", "e", "a", "d", "y", ".", "\n",
      "\n", "=", "=", "=", "=", "=", "=", "=", "=", "=", "=", "=", "=", "=", "=", "=",
      "=", "=", "=", "=", "=", "=", "=", "=", "=", "=", "=", "=", "=", "=", "=", "=", "=",
      "=", "=", "\n", "\n" >>

\* header of COPYSCRIPTS_SELECTIVE.py's generate_output
SelectiveHeader ==
    << "I", RightQuote, "m", " ", "e", "n", "c", "o", "u", "n", "t", "e", "r", "i", "n", "g",
      " ", "a", "n", " ", "e", "r", "r", "o", "r", " ", "i", "n", " ", "m", "y", " ", "s",
      "c", "r", "i", "p", "t", ",", " ", "a", "n", "d", " ", "I", RightQuote, "v", "e", " ", "i",
      "n", "c", "l", "u", "d", "e", "d", " ", "t", "h", "e", " ", "o", "u", "t", "p", "u",
      "t", " ", "a", "l", "o", "n", "g", " ", "w", "i", "t", "h", " ", "a", "l", "l", " ",
      "r", "e", "l", "a", "t", "e", "d", " ", "p", "r", "o", "j", "e", "c", "t", " ", "s",
      "c", "r", "i", "p", "t", "s", " ", "b", "e", "l", "o", "w", ".", " ", "P", "l", "e",
      "a", "s", "e", " ", "r", "e", "v", "i", "e", "w", " ", "a", "n", "d", " ", "p", "r",
      "o", "v", "i", "d", "e", " ", "a", " ", "c", "o", "m", "p", "l", "e", "t", "e", " ",
      "f", "i", "x", ".", " ", "E", "n", "s", "u", "r", "e", " ", "y", "o", "u", "r", " ",
      "r", "e", "s", "p", "o", "n", "s", "e", " ", "i", "n", "c", "l", "u", "d", "e", "s",
      " ", "a", " ", "f", "u", "l", "l", "y", " ", "f", "u", "n", "c", "t", "i", "o", "n",
      "a", "l", ",", " ", "e", "r", "r", "o", "r", "-", "f", "r", "e", "e", ",", " ", "a",
      "n", "d", " ", "d", "e", "p", "l", "o", "y", "m", "e", "n", "t", "-", "r", "e", "a",
      "d", "y", " ", "s", "c", "r", "i", "p", "t", ",", " ", "w", "i", "t", "h", " ", "n",
      "o", " ", "p", "l", "a", "c", "e", "h", "o", "l", "d", "e", "r", "s", " ", "o", "r",
      " ", "o", "m", "i", "s", "s", "i", "o", "n", "s", ".", " ", "A", "d", "d", "i", "t",
      "i", "o", "n", "a", "l", "l", "y", ",", " ", "a", "n", "y", " ", "r", "e", "v", "i",
      "s", "e", "d", " ", "c", "o", "d", "e", " ", "s", "h", "o", "u", "l", "d", " ", "b",
      "e", " ", "a", "s", " ", "c", "o", "m", "p", "a", "c", "t", " ", "a", "s", " ", "p",
      "o", "s", "s", "i", "b", "l", "e", ",", " ", "w", "i", "t", "h", "o", "u", "t", " ",
      "r", "e", "m", "a", "r", "k", "s", " ", "o", "r", " ", "d", "o", "c", "s", "t", "r",
      "i", "n", "g", "s", ",", " ", "w", "h", "i", "l", "e", " ", "m", "a", "i", "n", "t",
      "a", "i", "n", "i", "n", "g", " ", "f", "u", "l", "l", " ", "f", "u", "n", "c", "t",
      "i", "o", "n", "a", "l", "i", "t", "y", ",", " ", "c", "o", "m", "p", "a", "t", "i",
      "b", "i", "l", "i", "t", "y", ",", " ", "a", "n", "d", " ", "i", "n", "t", "e", "r",
      "o", "p", "e", "r", "a", "b", "i", "l", "i", "t", "y", ".", " ", "I", "f", " ", "n",
      "o", " ", "c", "h", "a", "n", "g", "e", "s", " ", "a", "r", "e", " ", "n", "e", "e",
      "d", "e", "d", ",", " ", "t", "h", "e", "r", "e", RightQuote, "s", " ", "n", "o", " ", "n",
      "e", "e", "d", " ", "t", "o", " ", "i", "n", "c", "l", "u", "d", "e", " ", "t", "h",
      "e", " ", "s", "c", "r", "i", "p", "t", " ", "i", "n", " ", "y", "o", "u", "r", " ",
      "r", "e", "s", "p", "o", "n", "s", "e", ".", "\n", "\n" >>

SeeTheError ==
    << "S", "e", "e", " ", "t", "h", "e", " ", "e", "r", "r", "o", "r", " ", "I", " ",
      "r", "e", "c", "e", "i", "v", "e", " ", "h", "e", "r", "e", ":", "\n", "\n", "=",
      "=", "=", "=", "=", "=", "=", "=", "=", "=", "=", "=", "=", "=", "=", "=", "=", "=",
      "=", "=", "\n", "\n" >>

AfterTheError ==
    << "\n", "\n", "=", "=", "=", "=", "=", "=", "=", "=", "=", "=", "=", "=", "=", "=",
      "=", "=", "=", "=", "=", "=", "\n", "\n" >>

ListedHere ==
    << "I", "'", "v", "e", " ", "l", "i", "s", "t", "e", "d", " ", "a", "l", "l", " ",
      "t", "h", "e", " ", "s", "c", "r", "i", "p", "t", "s", " ", "i", "n", " ", "t", "h",
      "i", "s", " ", "p", "r", "o", "j", "e", "c", "t", " ", "h", "e", "r", "e", ":",
      "\n", "\n", "=", "=", "=", "=", "=", "=", "=", "=", "=", "=", "=", "=", "=", "=",
      "=", "=", "=", "=", "=", "=", "\n", "\n" >>

ErrorWord == << "E", "R", "R", "O", "R" >>
TracebackWord == << "T", "r", "a", "c", "e", "b", "a", "c", "k" >>

Delimiter34 == [i \in 1..34 |-> "="]

\* text mode reading: "\r\n" and "\r" arrive as "\n"
RECURSIVE universal_newlines(_)
universal_newlines(s) ==
    IF s = << >> THEN << >>
    ELSE IF Head(s) = "\r"
    THEN << "\n" >> \o universal_newlines(IF Len(s) > 1 /\ s[2] = "\n"
                                          THEN SubSeq(s, 3, Len(s)) ELSE Tail(s))
    ELSE << Head(s) >> \o universal_newlines(Tail(s))

\* .replace('\r\n', '\n')
RECURSIVE replace_crlf(_)
replace_crlf(s) ==
    IF s = << >> THEN << >>
    ELSE IF Head(s) = "\r" /\ Len(s) > 1 /\ s[2] = "\n"
    THEN << "\n" >> \o replace_crlf(SubSeq(s, 3, Len(s)))
    ELSE << Head(s) >> \o replace_crlf(Tail(s))

\* read_file_contents of either exporter; raises: the read or the decoding
\* raises.  chardet finds no encoding for an empty file, and decode(None) raises.
read_file_contents(v, file_path, fs, raises) ==
    IF raises \/ file_path \notin DOMAIN fs THEN ErrorReadingFile
    ELSE IF v = Copyscripts THEN universal_newlines(fs[file_path])
    ELSE IF fs[file_path] = << >> THEN ErrorReadingFile
    ELSE replace_crlf(fs[file_path])

\* log_content.split('\n')
RECURSIVE split_lines(_)
split_lines(s) ==
    LET j == find_char(s, "\n", 1)
    IN IF j > Len(s) THEN << s >>
       ELSE << SubSeq(s, 1, j - 1) >> \o split_lines(SubSeq(s, j + 1, Len(s)))

\* '\n'.join(lines)
RECURSIVE join_lines(_)
join_lines(lines) ==
    IF lines = << >> THEN << >>
    ELSE IF Len(lines) = 1 THEN lines[1]
    ELSE lines[1] \o << "\n" >> \o join_lines(Tail(lines))

\* word in line
contains(line, word) == \E i \in 1..Len(line) : has_at(line, i, word)

\* how many lines before the first error the excerpt of the log starts
LogContext == 8

\* extract_relevant_log_section
extract_relevant_log_section(log_content) ==
    LET lines == split_lines(log_content)
        error_indices == { i \in 1..Len(lines) : contains(lines[i], ErrorWord) }
        traceback_indices == { i \in 1..Len(lines) : contains(lines[i], TracebackWord) }
        first(S) == CHOOSE i \in S : \A j \in S : i <= j
        start == IF error_indices # { } THEN first(error_indices) - LogContext
                 ELSE IF traceback_indices # { } THEN first(traceback_indices) - LogContext
                 ELSE 1
    IN join_lines(SubSeq(lines, IF start < 1 THEN 1 ELSE start, Len(lines)))

\* the section of copyscripts.py for the idx-th file: its header, as the
\* record the document is checked against, and its text
gpt_location(path) ==
    IF Len(path) > 1 /\ path[1] = Scripts THEN LocatedSubdirectory(Scripts)
    ELSE LocatedWorkingDirectory
gpt_section(idx_, path, file_contents) ==
    str(idx_) \o << ")", " " >> \o Last(path) \o << " ", "(" >> \o gpt_location(path)
        \o << ")", ":", "\n", "\n" >> \o file_contents \o << "\n", "\n" >>
        \o Delimiter34 \o << "\n", "\n" >>

\* generate_output of copyscripts.py over the unique files; unreadable: the
\* paths whose reading raises
gpt_generate_output(collected_files, fs, unreadable) ==
    GptHeader \o concat([i \in 1..Len(collected_files) |->
                           gpt_section(i, collected_files[i].paths[1],
                                       read_file_contents(Copyscripts,
                                           collected_files[i].paths[1], fs,
                                           collected_files[i].paths[1] \in unreadable))])

\* generate_output of COPYSCRIPTS_SELECTIVE.py; log_content is << >> for None
selective_section(filename, file_contents) ==
    filename \o << ":", "\n" >> \o file_contents \o << "\n" >> \o Delimiter20
selective_generate_output(collected_files, log_content, fs, unreadable) ==
    LET error_header ==
            (IF log_content # << >>
             THEN SeeTheError \o log_content \o AfterTheError ELSE << >>) \o ListedHere
    IN join_lines(<< SelectiveHeader \o error_header >>
                    \o [i \in 1..Len(collected_files) |->
                          selective_section(collected_files[i].name,
                              read_file_contents(Selective, collected_files[i].paths[1],
                                  fs, collected_files[i].paths[1] \in unreadable))])

\* the headers of the sections either exporter writes, in order
section_headers(v, collected_files) ==
    [i \in 1..Len(collected_files) |->
        [filename |-> IF v = Copyscripts THEN Last(collected_files[i].paths[1])
                      ELSE collected_files[i].name,
         path |-> collected_files[i].paths[1]]]

(***************************************************************************)
(* copyscripts.py and COPYSCRIPTS_SELECTIVE.py: the inputs of the model    *)
(***************************************************************************)
CopyScriptsPyMixed == << "C", "o", "p", "y", "S", "c", "r", "i", "p", "t", "s", ".", "p", "y" >>
CopyscriptsSelectivePyMixed ==
    << "C", "o", "p", "y", "s", "c", "r", "i", "p", "t", "s", "_", "S", "e", "l", "e",
      "c", "t", "i", "v", "e", ".", "p", "y" >>
UpperAPy == << "A", ".", "P", "Y" >>
HiddenPy == << ".", "h", ".", "p", "y" >>
XLog == << "x", ".", "l", "o", "g" >>
OldGpt == << "w", "-", "0", ".", "G", "P", "T" >>
OldGptBak == << "w", "-", "0", ".", "G", "P", "T", "B", "A", "K" >>
OldSelective == << "w", "-", "0", ".", "S", "e", "l", "e", "c", "t", "i", "v", "e" >>
NewGpt == << "w", "-", "1", ".", "G", "P", "T" >>
NewSelective == << "w", "-", "1", ".", "S", "E", "L", "E", "C", "T", "I", "V", "E" >>
Txt == << "T", "X", "T" >>
SelectiveWord == << "S", "E", "L", "E", "C", "T", "I", "V", "E" >>
BakWord == << "B", "A", "K" >>

\* the names either exporter can run under: as it is in the repository, and in
\* another case (on a file system that ignores case)
ScriptNames(v) ==
    IF v = Copyscripts THEN { CopyscriptsPy, CopyScriptsPyMixed }
    ELSE { CopyscriptsSelectivePy, lower(CopyscriptsSelectivePy) }

\* what -e and -f can carry; << >> is the option left out
ExtensionArgs == { << >>, << Txt >> }
FolderArgs == { << >>, << Sub >>, << Scripts >> }

\* the contents tried for a.py
Contents ==
    { << "x" >>, << "x", "\n" >>, << "x", "\r", "\n", "y" >>,
      << "=", "=", "=", "=", "=" >>, << >> }

\* both exporters are in the directory
ExportBase ==
    ( << CopyscriptsPy >> :> << "c" >> ) @@ ( << CopyscriptsSelectivePy >> :> << "e" >> )

\* the document an earlier run of exporter v has left in the directory
OldDocument(v) == IF v = Copyscripts THEN OldGpt ELSE OldSelective

\* the files a tree may hold besides, each with its content
ExportCandidates(v) ==
    { [path |-> << APy >>, content |-> c] : c \in Contents }
        \cup { [path |-> << Scripts, APy >>, content |-> << "s" >>],
               [path |-> << UpperAPy >>, content |-> << "u" >>],
               [path |-> << Sub, APy >>, content |-> << "d" >>],
               [path |-> << RequirementsTxt >>, content |-> << "q" >>],
               [path |-> << HiddenPy >>, content |-> << "h" >>],
               [path |-> << XLog >>, content |-> ErrorWord \o << "\n", "l" >>],
               [path |-> << OldDocument(v) >>, content |-> << "g" >>],
               [path |-> << Scripts, CopyScriptsPyMixed >>, content |-> << "m" >>],
               [path |-> << Scripts, CopyscriptsSelectivePyMixed >>, content |-> << "f" >>] }

\* the trees of at most n files besides the exporters
ExportTrees(v, n) ==
    { S \in SUBSET ExportCandidates(v) :
        /\ Cardinality(S) <= n
        /\ \A a, b \in S : a.path = b.path => a = b }

tree_files(S) ==
    [p \in (DOMAIN ExportBase) \cup { e.path : e \in S } |->
        IF p \in DOMAIN ExportBase THEN ExportBase[p]
        ELSE (CHOOSE e \in S : e.path = p).content]

tree_dirs(S) ==
    { Cwd, ParentDir } \cup { SubSeq(e.path, 1, Len(e.path) - 1) : e \in S }

(***************************************************************************)
(* copyscripts.py and COPYSCRIPTS_SELECTIVE.py: the main block             *)
(***************************************************************************)
\* what the importer and the normalizer hold while an exporter runs
IdleRestore ==
    /\ gptbak_files = << >>
    /\ selected = << >>
    /\ selection_number = 0
    /\ input = << >>
    /\ scripts = << >>
    /\ idx = 0
    /\ iterations = 0
    /\ logged = << >>
varsIdle == << varsN, gptbak_files, selected, selection_number, input, scripts, idx,
               iterations, logged >>

InitExport ==
    /\ prog = "exporter"
    /\ IdleNorm
    /\ IdleRestore
    /\ variant \in { Copyscripts, Selective }
    /\ argv0 \in ScriptNames(variant)
    /\ args \in [extensions : ExtensionArgs, folders : FolderArgs]
    /\ \E S \in ExportTrees(variant, MaxFiles) :
         /\ files = tree_files(S)
         /\ dirs = tree_dirs(S)
    /\ pc = "backup"
    /\ exit_code = -1
    /\ faults = 0
    /\ backup_dir = << >>
    /\ filename_map = << >>
    /\ reported = { }
    /\ doc_sections = << >>
    /\ document = << >>
    /\ restored = << >>

\* the extension of the documents the exporter backs up, and of their backups
document_suffix(v) == IF v = Copyscripts THEN DotGpt ELSE lower(<< "." >> \o SelectiveWord)
backup_suffix(v) == IF v = Copyscripts THEN DotGPTBAK ELSE << "." >> \o SelectiveWord \o BakWord

\* os.path.splitext(item)[0] + '.GPTBAK'
bak_filename(v, item) == stem(item) \o backup_suffix(v)

\* a slip: the failure of os.makedirs is reported and the run goes on to the scan
BackupExisting_unguarded ==
    /\ prog = "exporter" /\ pc = "backup"
    /\ \E outcome \in { "ok", "makedirs", "rename", "move" } :
       \E failing \in { p \in listdir(Cwd, files, { }) :
                          endswith(lower(Last(p)), document_suffix(variant)) } \cup { NoPath } :
         LET items == { p \in listdir(Cwd, files, { }) :
                          endswith(lower(Last(p)), document_suffix(variant)) }
             moved == IF outcome \in { "rename", "move" } THEN items \ { failing } ELSE items
             renamed == IF outcome = "move" THEN { failing } ELSE { }
             kept == remove_files(files, moved \cup renamed)
         IN /\ (outcome \in { "rename", "move" }) = (failing # NoPath)
            /\ faults' = faults + (IF outcome = "ok" THEN 0 ELSE 1)
            /\ faults' <= MaxFaults
            /\ IF outcome = "makedirs"
               THEN /\ pc' = "collect" /\ exit_code' = exit_code
                    /\ UNCHANGED << files, backup_dir >>
               ELSE /\ pc' = "collect" /\ exit_code' = exit_code
                    /\ files' = [p \in (DOMAIN kept)
                                        \cup { << bak_filename(variant, Last(q)) >> : q \in renamed } |->
                                   IF p \in DOMAIN kept THEN kept[p]
                                   ELSE files[CHOOSE q \in renamed :
                                                 << bak_filename(variant, Last(q)) >> = p]]
                    /\ backup_dir' = [n \in { bak_filename(variant, Last(q)) : q \in moved } |->
                                        files[CHOOSE q \in moved :
                                                 bak_filename(variant, Last(q)) = n]]
    /\ UNCHANGED << prog, varsIdle, dirs, variant, argv0, args, filename_map, reported,
                    doc_sections, document, restored >>

\* backup_existing_gpt_files / backup_existing_selective_files.  outcome:
\* "ok", "makedirs" (the backup directory cannot be made), "rename" or "move"
\* (the call raises for the document failing)
BackupExisting ==
    /\ prog = "exporter" /\ pc = "backup"
    /\ \E outcome \in { "ok", "makedirs", "rename", "move" } :
       \E failing \in { p \in listdir(Cwd, files, { }) :
                          endswith(lower(Last(p)), document_suffix(variant)) } \cup { NoPath } :
         LET items == { p \in listdir(Cwd, files, { }) :
                          endswith(lower(Last(p)), document_suffix(variant)) }
             moved == IF outcome \in { "rename", "move" } THEN items \ { failing } ELSE items
             renamed == IF outcome = "move" THEN { failing } ELSE { }
             kept == remove_files(files, moved \cup renamed)
         IN /\ (outcome \in { "rename", "move" }) = (failing # NoPath)
            /\ faults' = faults + (IF outcome = "ok" THEN 0 ELSE 1)
            /\ faults' <= MaxFaults
            /\ IF outcome = "makedirs"
               THEN /\ pc' = "exit" /\ exit_code' = 1
                    /\ UNCHANGED << files, backup_dir >>
               ELSE /\ pc' = "collect" /\ exit_code' = exit_code
                    /\ files' = [p \in (DOMAIN kept)
                                        \cup { << bak_filename(variant, Last(q)) >> : q \in renamed } |->
                                   IF p \in DOMAIN kept THEN kept[p]
                                   ELSE files[CHOOSE q \in renamed :
                                                 << bak_filename(variant, Last(q)) >> = p]]
                    /\ backup_dir' = [n \in { bak_filename(variant, Last(q)) : q \in moved } |->
                                        files[CHOOSE q \in moved :
                                                 bak_filename(variant, Last(q)) = n]]
    /\ UNCHANGED << prog, varsIdle, dirs, variant, argv0, args, filename_map, reported,
                    doc_sections, document, restored >>

\* filename_map = collect_files(base_dirs, extensions, excluded_filenames, ...)
CollectFiles ==
    /\ prog = "exporter" /\ pc = "collect"
    /\ filename_map' \in collect_files(variant, base_dirs(variant, args),
                                       extensions(variant, args),
                                       excluded_filenames(variant, argv0), files, dirs)
    /\ pc' = "duplicates"
    /\ UNCHANGED << prog, varsIdle, files, dirs, exit_code, faults, variant, argv0, args,
                    backup_dir, reported, doc_sections, document, restored >>

\* the duplicates are alerted and deleted from filename_map; sys.exit(0) when
\* nothing is left
RemoveDuplicates ==
    /\ prog = "exporter" /\ pc = "duplicates"
    /\ reported' = alert_duplicate_filenames(variant, duplicate_filenames(filename_map))
    /\ filename_map' = unique_files(filename_map)
    /\ pc' = IF filename_map' = << >> THEN "exit" ELSE "generate"
    /\ exit_code' = IF filename_map' = << >> THEN 0 ELSE exit_code
    /\ UNCHANGED << prog, varsIdle, files, dirs, faults, variant, argv0, args,
                    backup_dir, doc_sections, document, restored >>

\* log_files[0], read and cut, of COPYSCRIPTS_SELECTIVE.py; << >> for None
log_contents(fs, ds) ==
    LET log_files == { p \in listdir(Cwd, fs, ds) : endswith(Last(p), DotLog) }
    IN IF log_files = { } THEN { << >> }
       ELSE { extract_relevant_log_section(read_file_contents(Selective, p, fs, FALSE)) :
                p \in log_files }

\* generate_output and write_output_file.  unreadable: the collected files
\* whose reading raises; written: whether the open of the output succeeds
GenerateOutput ==
    /\ prog = "exporter" /\ pc = "generate"
    /\ \E unreadable \in SUBSET { filename_map[i].paths[1] : i \in 1..Len(filename_map) } :
       \E written \in BOOLEAN :
       \E log_content \in log_contents(files, dirs) :
         LET output_path == << IF variant = Copyscripts THEN NewGpt ELSE NewSelective >>
         IN /\ faults' = faults + Cardinality(unreadable) + (IF written THEN 0 ELSE 1)
            /\ faults' <= MaxFaults
            /\ document' = IF variant = Copyscripts
                           THEN gpt_generate_output(filename_map, files, unreadable)
                           ELSE selective_generate_output(filename_map, log_content,
                                                          files, unreadable)
            /\ files' = IF written THEN write_file(files, output_path, document')
                        ELSE files
    /\ doc_sections' = section_headers(variant, filename_map)
    /\ pc' = "written"
    /\ exit_code' = 0
    /\ UNCHANGED << prog, varsIdle, dirs, variant, argv0, args, backup_dir, filename_map,
                    reported, restored >>

\* replace_scripts over all the scripts, none of its calls raising
RECURSIVE replace_scripts(_, _, _, _)
replace_scripts(scripts_, managed_dirs, fs, ds) ==
    IF scripts_ = << >> THEN [files |-> fs, dirs |-> ds]
    ELSE LET r == replace_script(Head(scripts_), managed_dirs, fs, ds, "ok", { }, << >>)
         IN replace_scripts(Tail(scripts_), managed_dirs, r.files, r.dirs)

\* the importer's parse_gptbak_file and replace_scripts over the document, as
\* the only artifact of an otherwise empty directory
RestoreDocument ==
    /\ prog = "exporter" /\ pc = "written"
    /\ << IF variant = Copyscripts THEN NewGpt ELSE NewSelective >> \in DOMAIN files
    /\ restored' = replace_scripts(parse_gptbak_file(document), MANAGED_DIRECTORIES,
                                   ( << ArtifactName(1) >> :> document ),
                                   { Cwd, ParentDir }).files
    /\ pc' = "restored"
    /\ UNCHANGED << prog, varsIdle, files, dirs, exit_code, faults, variant, argv0, args,
                    backup_dir, filename_map, reported, doc_sections, document >>

NextExport ==
    \/ BackupExisting \/ CollectFiles \/ RemoveDuplicates \/ GenerateOutput
    \/ RestoreDocument

SpecExport == InitExport /\ [][NextExport]_vars

(***************************************************************************)
(* COPYSCRIPTS_SELECTIVE.py: the excerpt of the log                        *)
(***************************************************************************)
\* line i of a log whose first "ERROR" is on line e and whose first
\* "Traceback" is on line t (0: on no line)
LogLine(i, e, t) ==
    IF i = e /\ i = t THEN TracebackWord \o << " " >> \o ErrorWord
    ELSE IF i = e THEN << "a", " " >> \o ErrorWord \o << ":" >>
    ELSE IF i = t THEN TracebackWord \o << " ", "(" >>
    ELSE IF i > e /\ e > 0 /\ i % 4 = 0 THEN ErrorWord
    ELSE << "f" >>

\* the logs of at most n lines, with and without a final line end
LogTexts(n) ==
    UNION { { join_lines([i \in 1..len |-> LogLine(i, e, t)]) \o tail :
                e \in 0..len, t \in 0..len, tail \in { << >>, << "\n" >> } } :
            len \in 1..n }

InitLog ==
    /\ prog = "log"
    /\ IdleNorm
    /\ IdleRestore
    /\ variant = Selective
    /\ argv0 = CopyscriptsSelectivePy
    /\ args = [extensions |-> << >>, folders |-> << >>]
    /\ \E log \in LogTexts(MaxLogLines) : files = ( << XLog >> :> log )
    /\ dirs = { Cwd }
    /\ pc = "extract"
    /\ exit_code = -1
    /\ faults = 0
    /\ backup_dir = << >>
    /\ filename_map = << >>
    /\ reported = { }
    /\ doc_sections = << >>
    /\ document = << >>
    /\ restored = << >>

\* log_content = extract_relevant_log_section(read_file_contents(log_files[0]))
ExtractLog ==
    /\ prog = "log" /\ pc = "extract"
    /\ document' \in log_contents(files, dirs)
    /\ pc' = "extracted"
    /\ UNCHANGED << prog, varsIdle, files, dirs, exit_code, faults, variant, argv0, args,
                    backup_dir, filename_map, reported, doc_sections, restored >>

NextLog == ExtractLog

SpecLog == InitLog /\ [][NextLog]_vars

\* the lines of the log that was read, and the first of them holding a word
\* (0 when none does)
LogLines == split_lines(files[<< XLog >>])
FirstLineWith(word) ==
    IF \A i \in 1..Len(LogLines) : ~ contains(LogLines[i], word) THEN 0
    ELSE CHOOSE i \in 1..Len(LogLines) :
            /\ contains(LogLines[i], word)
            /\ \A j \in 1..(i - 1) : ~ contains(LogLines[j], word)

\* C12: with e the first line holding "ERROR" and t the first holding
\* "Traceback", the excerpt is the log from LogContext lines before the smaller
\* of e and t (of those that exist; not before the first line) to its last
\* line, so the excerpt holds both the first "ERROR" line and the first
\* "Traceback" line.
C12_LogExcerpt ==
    pc = "extracted" =>
       LET e == FirstLineWith(ErrorWord)
           t == FirstLineWith(TracebackWord)
           first == IF e = 0 THEN t ELSE IF t = 0 THEN e ELSE IF e < t THEN e ELSE t
           start == IF first - LogContext < 1 THEN 1 ELSE first - LogContext
       IN first > 0 =>
             /\ document = join_lines(SubSeq(LogLines, start, Len(LogLines)))
             /\ Len(split_lines(document)) >= Len(LogLines) - first + 1

(***************************************************************************)
(* copyscripts.py and COPYSCRIPTS_SELECTIVE.py: the properties             *)
(***************************************************************************)
\* the names of the tree are all collected at one path only
AllNamesUnique ==
    \A m \in collect_files(variant, base_dirs(variant, args), extensions(variant, args),
                           excluded_filenames(variant, argv0), files, dirs) :
       \A i \in 1..Len(m) : Len(m[i].paths) = 1

\* C1: when the collected files all have unique names and are read without
\* error, restoring the document of copyscripts.py into an empty directory
\* yields, for every file exported, a restored file of that name whose content
\* is the original content, line endings normalized to "\n".
C1_RoundTrip ==
    (pc = "restored" /\ variant = Copyscripts /\ faults = 0 /\ AllNamesUnique)
       => \A i \in 1..Len(doc_sections) :
             \E p \in DOMAIN restored :
                /\ Last(p) = doc_sections[i].filename
                /\ universal_newlines(restored[p])
                      = universal_newlines(files[doc_sections[i].path])

\* C4: every file name (compared without case) that the scan collected at two
\* or more paths has all its paths reported and no entry left in the map, and
\* the document has one section for each entry left and no two sections for
\* one name.
C4_DuplicateExclusion ==
    [][ /\ (pc = "duplicates" =>
              \A i \in 1..Len(filename_map) :
                 Len(filename_map[i].paths) >= 2 =>
                    /\ \A k \in 1..Len(filename_map[i].paths) :
                          filename_map[i].paths[k] \in reported'
                    /\ \A j \in 1..Len(filename_map') :
                          filename_map'[j].name # filename_map[i].name)
        /\ (pc = "generate" =>
              /\ Len(doc_sections') = Len(filename_map)
              /\ \A i \in 1..Len(doc_sections') :
                    lower(doc_sections'[i].filename) = filename_map[i].name
              /\ \A i, j \in 1..Len(doc_sections') :
                    lower(doc_sections'[i].filename) = lower(doc_sections'[j].filename)
                       => i = j) ]_vars

\* C5: whatever extensions and folders the command line adds and whatever the
\* tree holds, no section of the document carries the name the exporter runs
\* under, compared without case.
C5_SelfExclusion ==
    \A i \in 1..Len(doc_sections) :
       lower(doc_sections[i].filename) # lower(argv0)

\* a document was written for a tree that holds, besides the exporter, a file
\* of the exporter's name in another case
C5_Witness ==
    /\ pc = "written"
    /\ doc_sections # << >>
    /\ \E p \in DOMAIN files :
          /\ lower(Last(p)) = lower(argv0)
          /\ Last(p) # lower(Last(p))
          /\ \E i \in 1..Len(extensions(variant, args)) :
                endswith(lower(Last(p)), extensions(variant, args)[i])

\* the opening of the section that either exporter would write for the file
\* at path as its k-th, and that section whole, holding the content as read
SectionOpening(k, path) ==
    IF variant = Copyscripts
    THEN << "\n" >> \o str(k) \o << ")", " " >> \o Last(path) \o << " ", "(" >>
             \o gpt_location(path) \o << ")", ":", "\n" >>
    ELSE << "\n" >> \o lower(Last(path)) \o << ":", "\n" >>
SectionOf(k, path) ==
    IF variant = Copyscripts
    THEN << "\n" >> \o gpt_section(k, path, universal_newlines(files[path]))
    ELSE << "\n" >> \o selective_section(lower(Last(path)), replace_crlf(files[path]))

\* C13: a collected file that cannot be read is skipped: the document has no
\* section for it, and every other file left after the duplicates has its
\* section, so each section of the document holds the content of its file.
C13_UnreadableSkipped ==
    [][ pc = "generate" /\ << IF variant = Copyscripts THEN NewGpt ELSE NewSelective >>
                                \in DOMAIN files' =>
          LET n == Len(filename_map)
              with_section ==
                 { i \in 1..n : \E k \in 1..n :
                      contains(document', SectionOpening(k, filename_map[i].paths[1])) }
          IN /\ \A i \in with_section : \E k \in 1..n :
                   contains(document', SectionOf(k, filename_map[i].paths[1]))
             /\ Cardinality(with_section) = n - (faults' - faults) ]_vars

\* the documents of earlier runs that lie in the directory
OldDocuments ==
    { p \in listdir(Cwd, files, { }) : endswith(lower(Last(p)), document_suffix(variant)) }

\* the path of the document that this run writes
OutputPath == << IF variant = Copyscripts THEN NewGpt ELSE NewSelective >>

\* C14: the backup is the first step of every run of an exporter: the scan
\* starts only when it is over, and until then no document is written; after
\* it nothing is renamed or moved, the only file touched being the new
\* document when it is written; and a backup directory that cannot be made
\* ends the run with a code other than zero, no document of an earlier run
\* renamed or moved and no new one written.
C14_BackupBeforeExport ==
    [][ prog = "exporter" =>
          /\ (pc' = "collect" => pc = "backup")
          /\ (pc = "backup" => /\ document' = << >>
                               /\ OutputPath \notin DOMAIN files'
                               /\ filename_map' = << >>)
          /\ (pc # "backup" => /\ backup_dir' = backup_dir
                               /\ \A p \in Touched : pc = "generate" /\ p = OutputPath)
          /\ (pc = "backup" /\ faults' > faults =>
                \/ /\ pc' = "exit" /\ exit_code' \notin { 0, -1 }
                   /\ files' = files /\ backup_dir' = backup_dir
                \/ /\ pc' = "collect"
                   /\ \E d \in OldDocuments :
                         /\ bak_filename(variant, Last(d)) \notin DOMAIN backup_dir'
                         /\ d \in DOMAIN files'
                               \/ << bak_filename(variant, Last(d)) >> \in DOMAIN files')
          /\ (pc = "exit" => UNCHANGED vars) ]_vars

\* the backup directory could not be made: the run has ended with code 1, the
\* document of the earlier run is where it was and no new one is written
C14_Witness ==
    /\ prog = "exporter" /\ pc = "exit" /\ exit_code = 1 /\ faults = 1
    /\ OldDocuments # { }
    /\ backup_dir = << >>
    /\ OutputPath \notin DOMAIN files

\* the entry of a collected map lists one path only, however often
AtOnePath(entry) == Cardinality({ entry.paths[k] : k \in 1..Len(entry.paths) }) = 1

\* C16: a file that is on disk at one path and whose lower-cased name no other
\* collected file has is not taken for a duplicate: it is not reported, it
\* stays in the map, and the document has exactly one section for it, whatever
\* folders -f names and also under 'scripts'.
C16_NoSelfDuplicates ==
    [][ /\ (pc = "duplicates" =>
              \A i \in 1..Len(filename_map) :
                 AtOnePath(filename_map[i]) =>
                    /\ filename_map[i].paths[1] \notin reported'
                    /\ Cardinality({ j \in 1..Len(filename_map') :
                                       filename_map'[j].name = filename_map[i].name }) = 1
                    /\ pc' = "generate")
        /\ (pc = "generate" =>
              \A i \in 1..Len(filename_map) :
                 Cardinality({ j \in 1..Len(doc_sections') :
                                 doc_sections'[j].path = filename_map[i].paths[1] }) = 1) ]_vars

====
